---- MODULE Spec2Model ----
(***************************************************************************)
(* Model of the entity-resolution and batched-retrieval pipeline of        *)
(* sec-finance.js: the cached resolver getCIKFromCompanyOrTicker with its  *)
(* process-wide companyCache, and the filing aggregator                    *)
(* fetchLatestFilingsByForm with its per-entity fetches; and of            *)
(* sharepoint-search.js: the uncached resolver and the ranking pass of     *)
(* the /sharepoint-query handler.                                          *)
(*                                                                         *)
(* Strings are sequences of one-character strings, so that lower-casing,   *)
(* trimming, substring search, padding and concatenation are computed.     *)
(***************************************************************************)
EXTENDS Integers, Sequences, FiniteSets, TLC

\* ------------------------------------------------------------------ bounds
\* number of resolver invocations in one behaviour
MaxCalls == 3
\* number of rows of the reference table
MaxRows == 2
\* number of rows of the table scanned by fetchLatestFilingsByForm
MaxEntities == 12
\* largest limit passed to fetchLatestFilingsByForm
MaxLimit == 3
\* number of distinct CIKs among the rows scanned for filings
MaxCik == 3
\* number of rows of the table scanned when failed requests are recorded
MaxWatched == 7
\* number of files returned by one SharePoint search
MaxCandidates == 4
\* number of rows of the table scanned when termination is checked
MaxScanned == 7

\* ------------------------------------------------------- string primitives
\* JavaScript null / undefined
Null == <<"<null>">>

\* a JavaScript value used as a condition: null, undefined and "" are falsy
Truthy(s) == s # Null /\ s # <<>>

LowerChar(ch) ==
  CASE ch = "A" -> "a"
    [] ch = "B" -> "b"
    [] ch = "C" -> "c"
    [] ch = "X" -> "x"
    [] ch = "Y" -> "y"
    [] OTHER -> ch

\* String.prototype.toLowerCase
ToLowerCase(s) == [i \in 1..Len(s) |-> LowerChar(s[i])]

UpperChar(ch) ==
  CASE ch = "k" -> "K"
    [] ch = "q" -> "Q"
    [] OTHER -> ch

\* String.prototype.toUpperCase
ToUpperCase(s) == [i \in 1..Len(s) |-> UpperChar(s[i])]

RECURSIVE TrimStart(_)
TrimStart(s) == IF s # <<>> /\ Head(s) = " " THEN TrimStart(Tail(s)) ELSE s

RECURSIVE TrimEnd(_)
TrimEnd(s) ==
  IF s # <<>> /\ s[Len(s)] = " " THEN TrimEnd(SubSeq(s, 1, Len(s) - 1)) ELSE s

\* String.prototype.trim
Trim(s) == TrimEnd(TrimStart(s))

\* String.prototype.includes
Includes(s, sub) ==
  \E i \in 0..(Len(s) - Len(sub)) : SubSeq(s, i + 1, i + Len(sub)) = sub

DigitChar(d) ==
  CASE d = 0 -> "0" [] d = 1 -> "1" [] d = 2 -> "2" [] d = 3 -> "3"
    [] d = 4 -> "4" [] d = 5 -> "5" [] d = 6 -> "6" [] d = 7 -> "7"
    [] d = 8 -> "8" [] OTHER -> "9"

\* Number.prototype.toString / String(n) of a non-negative integer
RECURSIVE NumToString(_)
NumToString(n) ==
  IF n < 10 THEN <<DigitChar(n)>>
  ELSE NumToString(n \div 10) \o <<DigitChar(n % 10)>>

\* String.prototype.padStart(width, ch)
RECURSIVE PadStart(_, _, _)
PadStart(s, width, ch) ==
  IF Len(s) >= width THEN s ELSE PadStart(<<ch>> \o s, width, ch)

\* width of a formatted CIK
CikWidth == 10

\* row[cikIndex].toString().padStart(10, "0")
FormatCik(n) == PadStart(NumToString(n), CikWidth, "0")

\* ---------------------------------------------------------- reference table
\* rows of company_tickers_exchange.json: numeric cik, display name, ticker
RowPool ==
  { [cik |-> 7,  name |-> <<"A", "b">>,      ticker |-> <<"X">>],
    [cik |-> 12, name |-> <<"b", " ", "c">>, ticker |-> <<"B">>],
    [cik |-> 3,  name |-> <<"C">>,           ticker |-> <<"Y">>] }

RECURSIVE TablesOfLen(_)
TablesOfLen(n) ==
  IF n = 0 THEN { <<>> }
  ELSE { Append(t, r) : t \in TablesOfLen(n - 1), r \in RowPool }

\* a listing appears once in the table
NoRepeat(t) == \A i, j \in 1..Len(t) : t[i] = t[j] => i = j

Tables ==
  { t \in UNION { TablesOfLen(n) : n \in 0..MaxRows } : NoRepeat(t) }

\* (name, ticker) argument pairs a caller passes: a name alone, the name
\* with a ticker, the ticker alone
ArgPairs ==
  { <<<<"b">>, Null>>, <<<<"b">>, <<" ", "Y">>>>, <<Null, <<" ", "Y">>>> }

\* ------------------------------------------------------------------- state
VARIABLES
  T,             \* the reference table served by the SEC endpoint
  companyCache,  \* Map: lookup key -> formatted CIK or Null
  calls,         \* the invocations of getCIKFromCompanyOrTicker, by order
  secCiks,       \* cik column of the table served to fetchLatestFilingsByForm
  apc,           \* position of the fetchLatestFilingsByForm call
  formFilter,    \* its formFilter argument
  limit,         \* its limit argument
  ciks,          \* its local ciks
  i,             \* its loop index
  batch,         \* its local batch
  pending,       \* slots of batch whose per-entity fetch is in flight
  results,       \* per-slot result of fetchFilingsFromSECByCIK
  collected,     \* its local collected
  output,        \* the list it returned
  issued,        \* positions of ciks for which a fetch was issued, in order
  discovered,    \* every filing delivered by a consumed window, in order,
                 \* with the position in ciks of the entity it came from
  watchFailures, \* whether failed requests are recorded in failedAt
  failedAt,      \* positions of ciks whose request failed (caught, returned
                 \* []), recorded when watchFailures
  rpc,           \* position of the /sharepoint-query handler
  query,         \* req.body.query
  keywords,      \* its local keywords
  hits,          \* the files searchSharePointFiles returned, in order
  candidates,    \* its local candidates
  previewMax,    \* previewMaxChars of the branch taken
  pendingPrev,   \* indices of candidates whose preview fetch is in flight
  previews,      \* its local previews
  pendingFull,   \* indices of topFiles whose full fetch is in flight
  topFullContents, \* its local topFullContents
  fetchLog,      \* the getFileTextContent calls issued, in order
  response       \* the response sent

resolverVars == <<T, companyCache, calls>>
aggVars == <<secCiks, apc, formFilter, limit, ciks, i, batch, pending,
             results, collected, output, issued, discovered, watchFailures,
             failedAt>>
rankVars == <<rpc, query, keywords, hits, candidates, previewMax, pendingPrev,
              previews, pendingFull, topFullContents, fetchLog, response>>
vars == <<resolverVars, aggVars, rankVars>>

CallIds == 1..MaxCalls

IdleCall ==
  [pc |-> "idle", name |-> Null, ticker |-> Null, key |-> <<>>,
   result |-> Null, outcome |-> "none", after |-> {}]

\* maxChars = null: no cap
NoCap == 0

NoResponse == [status |-> 0, sources |-> <<>>]

\* no request is being handled
RankIdle ==
  /\ rpc = "idle"
  /\ query = Null
  /\ keywords = <<>>
  /\ hits = <<>>
  /\ candidates = <<>>
  /\ previewMax = NoCap
  /\ pendingPrev = {}
  /\ previews = <<>>
  /\ pendingFull = {}
  /\ topFullContents = <<>>
  /\ fetchLog = <<>>
  /\ response = NoResponse

\* ---------------------------------------------------------------- resolver
\* const key = (name || ticker || "").toLowerCase();
CacheKey(name, ticker) ==
  ToLowerCase(IF Truthy(name) THEN name
              ELSE IF Truthy(ticker) THEN ticker ELSE <<>>)

\* name?.toLowerCase().trim()
Normalize(s) == IF s = Null THEN Null ELSE Trim(ToLowerCase(s))

\* a scan that stops at the first row matching by name
RECURSIVE ScanRowsNameBreaks(_, _, _, _, _)
ScanRowsNameBreaks(data, idx, bestMatch, searchName, searchTicker) ==
  IF idx > Len(data)
  THEN Null
  ELSE LET rowName == ToLowerCase(data[idx].name)
           rowTicker == ToLowerCase(data[idx].ticker)
       IN IF Truthy(searchTicker) /\ rowTicker = searchTicker
          THEN FormatCik(data[idx].cik)
          ELSE IF Truthy(searchName)
                  /\ (rowName = searchName \/ Includes(rowName, searchName))
               THEN FormatCik(data[idx].cik)
               ELSE ScanRowsNameBreaks(data, idx + 1, bestMatch,
                                       searchName, searchTicker)

\* the for loop over data: returns at the first ticker match, otherwise
\* keeps in bestMatch the row assigned last
RECURSIVE ScanRows(_, _, _, _, _)
ScanRows(data, idx, bestMatch, searchName, searchTicker) ==
  IF idx > Len(data)
  THEN IF bestMatch = 0 THEN Null ELSE FormatCik(data[bestMatch].cik)
  ELSE LET rowName == ToLowerCase(data[idx].name)
           rowTicker == ToLowerCase(data[idx].ticker)
       IN IF Truthy(searchTicker) /\ rowTicker = searchTicker
          THEN FormatCik(data[idx].cik)
          ELSE IF Truthy(searchName)
                  /\ (rowName = searchName \/ Includes(rowName, searchName))
               THEN ScanRows(data, idx + 1, idx, searchName, searchTicker)
               ELSE ScanRows(data, idx + 1, bestMatch, searchName, searchTicker)

\* the scan of one call on the fetched table
ScanTable(data, name, ticker) ==
  ScanRows(data, 1, 0, Normalize(name), Normalize(ticker))

\* the invocations that have returned
Returned == { d \in CallIds : calls[d].pc = "done" }

\* getCIKFromCompanyOrTicker up to its first await: the cache check, and on
\* a miss the axios.get that is issued before the function suspends
CallResolve(c, name, ticker) ==
  /\ calls[c].pc = "idle"
  /\ \A d \in CallIds : d < c => calls[d].pc # "idle"
  /\ LET key == CacheKey(name, ticker)
         base == [calls[c] EXCEPT !.name = name, !.ticker = ticker,
                                  !.key = key, !.after = Returned]
     IN IF key \in DOMAIN companyCache
        THEN calls' = [calls EXCEPT ![c] =
                 [base EXCEPT !.pc = "done", !.outcome = "hit",
                              !.result = companyCache[key]]]
        ELSE calls' = [calls EXCEPT ![c] = [base EXCEPT !.pc = "await"]]
  /\ UNCHANGED <<T, companyCache, aggVars, rankVars>>

\* the await resumes with the table: scan, companyCache.set(key, cik), return
FetchTableOk(c) ==
  /\ calls[c].pc = "await"
  /\ LET cik == ScanTable(T, calls[c].name, calls[c].ticker)
     IN /\ companyCache' =
             [k \in DOMAIN companyCache \cup {calls[c].key} |->
                IF k = calls[c].key THEN cik ELSE companyCache[k]]
        /\ calls' = [calls EXCEPT ![c] =
             [@ EXCEPT !.pc = "done", !.outcome = "scanned",
                       !.result = cik]]
  /\ UNCHANGED <<T, aggVars, rankVars>>

\* a failed fetch that stores null under the key before returning it
FetchTableFailCaches(c) ==
  /\ calls[c].pc = "await"
  /\ companyCache' =
       [k \in DOMAIN companyCache \cup {calls[c].key} |->
          IF k = calls[c].key THEN Null ELSE companyCache[k]]
  /\ calls' = [calls EXCEPT ![c] =
       [@ EXCEPT !.pc = "done", !.outcome = "error",
                 !.result = Null]]
  /\ UNCHANGED <<T, aggVars, rankVars>>

\* the await rejects, or res.data has no fields/data: catch, return null
FetchTableFail(c) ==
  /\ calls[c].pc = "await"
  /\ calls' = [calls EXCEPT ![c] =
       [@ EXCEPT !.pc = "done", !.outcome = "error",
                 !.result = Null]]
  /\ UNCHANGED <<T, companyCache, aggVars, rankVars>>


\* ------------------------------------------------------------- aggregator
BATCH_SIZE == 5

\* limit fetchLatestFilingsByForm passes to fetchFilingsFromSECByCIK
PerEntityLimit == 10

Min(a, b) == IF a < b THEN a ELSE b

\* Array.prototype.slice(from, to), from and to counted from 0
Slice(s, from, to) == SubSeq(s, from + 1, Min(to, Len(s)))

\* new Date(filingDate) as a number: earlier dates give smaller values
DateValue(d) == (d[1] * 12 + (d[2] - 1)) * 31 + d[3]

\* entries of filings.recent of a submissions record (parallel arrays, one
\* entry per index)
EntryOld ==
  [accessionNumber |-> <<"0", "1">>, filingDate |-> <<2024, 2, 1>>,
   form |-> <<"1", "0", "-", "K">>]
EntryNew ==
  [accessionNumber |-> <<"0", "2">>, filingDate |-> <<2024, 3, 5>>,
   form |-> <<"1", "0", "-", "K">>]
EntryOther ==
  [accessionNumber |-> <<"0", "3">>, filingDate |-> <<2024, 4, 2>>,
   form |-> <<"8", "-", "K">>]

\* submissions records the SEC endpoint may serve for a CIK
RecordPool ==
  { <<EntryOld, EntryNew>>, <<EntryOther, EntryNew>>, <<EntryOther>> }

\* formFilter arguments
FormArgs == { <<"1", "0", "-", "k">> }

\* the cik column of a reference table of n rows
CikColumn(n) == [k \in 1..n |-> ((k - 1) % MaxCik) + 1]

\* the loop of fetchFilingsFromSECByCIK over recent.accessionNumber
RECURSIVE BuildFilings(_, _, _, _, _)
BuildFilings(cik, recent, idx, lim, filter) ==
  IF idx > Min(Len(recent), lim) THEN <<>>
  ELSE IF Truthy(filter)
          /\ ~Includes(ToUpperCase(recent[idx].form), ToUpperCase(filter))
       THEN BuildFilings(cik, recent, idx + 1, lim, filter)
       ELSE << [cik |-> cik,
                accessionNumber |-> recent[idx].accessionNumber,
                filingDate |-> recent[idx].filingDate,
                form |-> recent[idx].form] >>
            \o BuildFilings(cik, recent, idx + 1, lim, filter)

\* `${f.cik}-${f.accessionNumber}`
DedupKey(f) == f.cik \o <<"-">> \o f.accessionNumber

\* a lookup that compares with the last collected filing only
FoundLastOnly(col, key) == col # <<>> /\ DedupKey(col[Len(col)]) = key

\* collected.find((x) => key of x === key)
Found(col, key) == \E x \in 1..Len(col) : DedupKey(col[x]) = key

\* the inner loop without its break
RECURSIVE ConsumeArrNoBreak(_, _, _, _)
ConsumeArrNoBreak(arr, j, col, lim) ==
  IF j > Len(arr) THEN col
  ELSE IF ~Found(col, DedupKey(arr[j]))
       THEN ConsumeArrNoBreak(arr, j + 1, Append(col, arr[j]), lim)
       ELSE ConsumeArrNoBreak(arr, j + 1, col, lim)

\* for (const f of arr): push when unseen, break once limit is reached
RECURSIVE ConsumeArr(_, _, _, _)
ConsumeArr(arr, j, col, lim) ==
  IF j > Len(arr) THEN col
  ELSE IF ~Found(col, DedupKey(arr[j]))
       THEN LET pushed == Append(col, arr[j])
            IN IF Len(pushed) >= lim THEN pushed
               ELSE ConsumeArr(arr, j + 1, pushed, lim)
       ELSE ConsumeArr(arr, j + 1, col, lim)

\* a consumption that buffers every unseen filing of the window
RECURSIVE ConsumeResultsAll(_, _, _, _)
ConsumeResultsAll(res, r, col, lim) ==
  IF r > Len(res) THEN col
  ELSE ConsumeResultsAll(res, r + 1, ConsumeArrNoBreak(res[r], 1, col, lim),
                         lim)

\* for (const arr of results): skip empty, consume, break once limit reached
RECURSIVE ConsumeResults(_, _, _, _)
ConsumeResults(res, r, col, lim) ==
  IF r > Len(res) THEN col
  ELSE IF Len(res[r]) = 0 THEN ConsumeResults(res, r + 1, col, lim)
       ELSE LET after == ConsumeArr(res[r], 1, col, lim)
            IN IF Len(after) >= lim THEN after
               ELSE ConsumeResults(res, r + 1, after, lim)

\* insertion that keeps x behind every element that does not sort after it
\* an insertion that puts x before the filings of its own date
RECURSIVE InsertByDateTiesFirst(_, _)
InsertByDateTiesFirst(sorted, x) ==
  IF sorted = <<>> THEN <<x>>
  ELSE IF DateValue(x.filingDate) - DateValue(Head(sorted).filingDate) >= 0
       THEN <<x>> \o sorted
       ELSE <<Head(sorted)>> \o InsertByDateTiesFirst(Tail(sorted), x)

RECURSIVE InsertByDate(_, _)
InsertByDate(sorted, x) ==
  IF sorted = <<>> THEN <<x>>
  ELSE IF DateValue(x.filingDate) - DateValue(Head(sorted).filingDate) > 0
       THEN <<x>> \o sorted
       ELSE <<Head(sorted)>> \o InsertByDate(Tail(sorted), x)

\* a sort with the comparator's operands exchanged
RECURSIVE SortByDateAsc(_)
SortByDateAsc(s) ==
  IF s = <<>> THEN <<>>
  ELSE LET rest == SortByDateAsc(SubSeq(s, 1, Len(s) - 1))
           x == s[Len(s)]
           before == SelectSeq(rest, LAMBDA y :
                       DateValue(y.filingDate) <= DateValue(x.filingDate))
           behind == SelectSeq(rest, LAMBDA y :
                       DateValue(y.filingDate) > DateValue(x.filingDate))
       IN before \o <<x>> \o behind

\* collected.sort((a, b) => new Date(b.filingDate) - new Date(a.filingDate))
RECURSIVE SortByDateDesc(_)
SortByDateDesc(s) ==
  IF s = <<>> THEN <<>>
  ELSE InsertByDate(SortByDateDesc(SubSeq(s, 1, Len(s) - 1)), s[Len(s)])

RECURSIVE Flatten(_)
Flatten(ss) == IF ss = <<>> THEN <<>> ELSE Head(ss) \o Flatten(Tail(ss))

\* a loop condition that tests the index only
LoopIgnoresLimit(idx, cks, col, lim) == idx < Len(cks)

\* i < ciks.length && collected.length < limit
LoopContinues(idx, cks, col, lim) == idx < Len(cks) /\ Len(col) < lim

\* the head of the for loop with index idx: either the next window is
\* issued (slice, one fetch per CIK, await Promise.all) or the loop ends and
\* the function sorts, slices and returns
LoopHead(idx, cks, col, lim) ==
  /\ i' = idx
  /\ IF LoopContinues(idx, cks, col, lim)
     THEN /\ apc' = "window"
          /\ batch' = Slice(cks, idx, idx + BATCH_SIZE)
          /\ pending' = 1..Len(batch')
          /\ results' = [s \in 1..Len(batch') |-> <<>>]
          /\ issued' = issued \o [s \in 1..Len(batch') |-> idx + s]
          /\ collected' = col
          /\ UNCHANGED output
     ELSE /\ apc' = "done"
          /\ collected' = SortByDateDesc(col)
          /\ output' = Slice(collected', 0, lim)
          /\ UNCHANGED <<batch, pending, results, issued>>

\* fetchLatestFilingsByForm(formFilter, limit) up to its first await
CallAggregate(filter, lim) ==
  /\ apc = "idle"
  /\ apc' = "loading"
  /\ formFilter' = filter
  /\ limit' = lim
  /\ UNCHANGED <<secCiks, ciks, i, batch, pending, results, collected,
                 output, issued, discovered, watchFailures, failedAt,
                 resolverVars, rankVars>>

\* the table arrives: ciks = data.map(...), then the loop starts
LoadTableOk ==
  /\ apc = "loading"
  /\ ciks' = [k \in 1..Len(secCiks) |-> FormatCik(secCiks[k])]
  /\ LoopHead(0, ciks', <<>>, limit)
  /\ UNCHANGED <<secCiks, formFilter, limit, discovered, watchFailures,
                 failedAt, resolverVars, rankVars>>

\* the table fetch rejects or is malformed: catch, return []
LoadTableFail ==
  /\ apc = "loading"
  /\ apc' = "done"
  /\ output' = <<>>
  /\ UNCHANGED <<secCiks, formFilter, limit, ciks, i, batch, pending,
                 results, collected, issued, discovered, watchFailures,
                 failedAt, resolverVars, rankVars>>

\* fetchFilingsFromSECByCIK(cik, 10, formFilter) of slot s resolves with the
\* filings built from the record served
FetchEntityOk(s, recent) ==
  /\ apc = "window"
  /\ s \in pending
  /\ pending' = pending \ {s}
  /\ results' = [results EXCEPT ![s] =
       BuildFilings(batch[s], recent, 1, PerEntityLimit, formFilter)]
  /\ UNCHANGED <<secCiks, apc, formFilter, limit, ciks, i, batch, collected,
                 output, issued, discovered, watchFailures, failedAt,
                 resolverVars, rankVars>>

\* a failed request of slot s that rejects Promise.all, so that the outer
\* catch returns []
FetchEntityFailAborts(s) ==
  /\ apc = "window"
  /\ s \in pending
  /\ apc' = "done"
  /\ output' = <<>>
  /\ failedAt' = IF watchFailures THEN failedAt \cup {i + s} ELSE failedAt
  /\ UNCHANGED <<secCiks, formFilter, limit, ciks, i, batch, pending, results,
                 collected, issued, discovered, watchFailures, resolverVars, rankVars>>

\* the request of slot s fails: fetchFilingsFromSECByCIK catches, returns []
FetchEntityFail(s) ==
  /\ apc = "window"
  /\ s \in pending
  /\ pending' = pending \ {s}
  /\ results' = [results EXCEPT ![s] = <<>>]
  /\ failedAt' = IF watchFailures THEN failedAt \cup {i + s} ELSE failedAt
  /\ UNCHANGED <<secCiks, apc, formFilter, limit, ciks, i, batch, collected,
                 output, issued, discovered, watchFailures, resolverVars, rankVars>>

\* a window taken as complete once one of its requests has returned
WindowCompleteAtFirst ==
  /\ apc = "window"
  /\ pending # 1..Len(batch)
  /\ collected' = ConsumeResults(results, 1, collected, limit)
  /\ discovered' = discovered
  /\ apc' = "delay"
  /\ UNCHANGED <<secCiks, formFilter, limit, ciks, i, batch, pending,
                 results, output, issued, watchFailures, failedAt,
                 resolverVars, rankVars>>

\* Promise.all resolves: the results are consumed, then the delay is awaited
WindowComplete ==
  /\ apc = "window"
  /\ pending = {}
  /\ collected' = ConsumeResults(results, 1, collected, limit)
  /\ discovered' = discovered \o Flatten(
       [s \in 1..Len(results) |->
          [k \in 1..Len(results[s]) |-> [f |-> results[s][k], pos |-> i + s]]])
  /\ apc' = "delay"
  /\ UNCHANGED <<secCiks, formFilter, limit, ciks, i, batch, pending,
                 results, output, issued, watchFailures, failedAt,
                 resolverVars, rankVars>>

\* a loop step one short of the window size, so that consecutive windows
\* overlap
DelayElapsedShortStep ==
  /\ apc = "delay"
  /\ LoopHead(i + BATCH_SIZE - 1, ciks, collected, limit)
  /\ UNCHANGED <<secCiks, formFilter, limit, ciks, discovered, watchFailures,
                 failedAt, resolverVars, rankVars>>

\* a loop step that leaves the index where it is
DelayElapsedNoAdvance ==
  /\ apc = "delay"
  /\ LoopHead(i, ciks, collected, limit)
  /\ UNCHANGED <<secCiks, formFilter, limit, ciks, discovered, watchFailures,
                 failedAt, resolverVars, rankVars>>

\* setTimeout fires: i += BATCH_SIZE and the loop condition is tested
DelayElapsed ==
  /\ apc = "delay"
  /\ LoopHead(i + BATCH_SIZE, ciks, collected, limit)
  /\ UNCHANGED <<secCiks, formFilter, limit, ciks, discovered, watchFailures,
                 failedAt, resolverVars, rankVars>>

AggIdle ==
  /\ apc = "idle"
  /\ formFilter = Null
  /\ limit = 0
  /\ ciks = <<>>
  /\ i = 0
  /\ batch = <<>>
  /\ pending = {}
  /\ results = <<>>
  /\ collected = <<>>
  /\ output = <<>>
  /\ issued = <<>>
  /\ discovered = <<>>
  /\ failedAt = {}

InitAgg ==
  /\ T = <<>>
  /\ companyCache = << >>
  /\ calls = [c \in CallIds |-> IdleCall]
  /\ secCiks \in { CikColumn(n) : n \in 0..MaxEntities }
  /\ watchFailures = FALSE
  /\ AggIdle
  /\ RankIdle

\* the same call over a table of at most MaxWatched rows, with the failed
\* requests recorded
InitAggFail ==
  /\ T = <<>>
  /\ companyCache = << >>
  /\ calls = [c \in CallIds |-> IdleCall]
  /\ secCiks \in { CikColumn(n) : n \in 0..MaxWatched }
  /\ watchFailures = TRUE
  /\ AggIdle
  /\ RankIdle

NextAgg ==
  \/ \E filter \in FormArgs, lim \in 0..MaxLimit : CallAggregate(filter, lim)
  \/ LoadTableOk
  \/ LoadTableFail
  \/ \E s \in pending, recent \in RecordPool : FetchEntityOk(s, recent)
  \/ \E s \in pending : FetchEntityFail(s)
  \/ WindowComplete
  \/ DelayElapsed

SpecAgg == InitAgg /\ [][NextAgg]_vars

SpecAggFail == InitAggFail /\ [][NextAgg]_vars

\* the same call over a table of at most MaxScanned rows
InitAggLive ==
  /\ T = <<>>
  /\ companyCache = << >>
  /\ calls = [c \in CallIds |-> IdleCall]
  /\ secCiks \in { CikColumn(n) : n \in 0..MaxScanned }
  /\ watchFailures = FALSE
  /\ AggIdle
  /\ RankIdle

\* every request of a window in flight returns or fails
EntityFetchSettles ==
  \/ \E s \in pending, recent \in RecordPool : FetchEntityOk(s, recent)
  \/ \E s \in pending : FetchEntityFail(s)

\* the call when every issued per-entity request settles, the continuation
\* of a resolved Promise.all is run, and every timer fires
SpecAggLive ==
  /\ InitAggLive
  /\ [][NextAgg]_vars
  /\ WF_vars(EntityFetchSettles)
  /\ WF_vars(WindowComplete)
  /\ WF_vars(DelayElapsed)

\* ------------------------------------------------------- specifications
Init ==
  /\ T \in Tables
  /\ companyCache = << >>
  /\ calls = [c \in CallIds |-> IdleCall]
  /\ secCiks = <<>>
  /\ watchFailures = FALSE
  /\ AggIdle
  /\ RankIdle

Next ==
  \/ \E c \in CallIds, a \in ArgPairs : CallResolve(c, a[1], a[2])
  \/ \E c \in CallIds : FetchTableOk(c)
  \/ \E c \in CallIds : FetchTableFail(c)

Spec == Init /\ [][Next]_vars

\* ------------------------------------------------------ uncached resolver
\* the for loop of the resolver of sharepoint-search.js: returns at the
\* first row that contains the searched name or has the searched ticker
RECURSIVE ScanRowsUncached(_, _, _, _)
ScanRowsUncached(data, idx, searchName, searchTicker) ==
  IF idx > Len(data)
  THEN Null
  ELSE LET rowName == ToLowerCase(data[idx].name)
           rowTicker == ToLowerCase(data[idx].ticker)
       IN IF \/ Truthy(searchName) /\ Includes(rowName, searchName)
             \/ Truthy(searchTicker) /\ rowTicker = searchTicker
          THEN FormatCik(data[idx].cik)
          ELSE ScanRowsUncached(data, idx + 1, searchName, searchTicker)

\* the resolver up to its await: the axios.get is issued on every call
CallResolveUncached(c, name, ticker) ==
  /\ calls[c].pc = "idle"
  /\ \A d \in CallIds : d < c => calls[d].pc # "idle"
  /\ calls' = [calls EXCEPT ![c] =
       [@ EXCEPT !.pc = "await", !.name = name, !.ticker = ticker,
                 !.after = Returned]]
  /\ UNCHANGED <<T, companyCache, aggVars, rankVars>>

\* the await resumes with the table: scan and return, nothing is stored
FetchTableOkUncached(c) ==
  /\ calls[c].pc = "await"
  /\ calls' = [calls EXCEPT ![c] =
       [@ EXCEPT !.pc = "done", !.outcome = "scanned",
                 !.result = ScanRowsUncached(T, 1, Normalize(calls[c].name),
                                             Normalize(calls[c].ticker))]]
  /\ UNCHANGED <<T, companyCache, aggVars, rankVars>>

\* the await rejects or the response has no fields/data: catch, return null
FetchTableFailUncached(c) ==
  /\ calls[c].pc = "await"
  /\ calls' = [calls EXCEPT ![c] =
       [@ EXCEPT !.pc = "done", !.outcome = "error", !.result = Null]]
  /\ UNCHANGED <<T, companyCache, aggVars, rankVars>>

NextUncached ==
  \/ \E c \in CallIds, a \in ArgPairs : CallResolveUncached(c, a[1], a[2])
  \/ \E c \in CallIds : FetchTableOkUncached(c)
  \/ \E c \in CallIds : FetchTableFailUncached(c)

SpecUncached == Init /\ [][NextUncached]_vars

\* ---------------------------------------------------- /sharepoint-query
\* \w of the regular expression
WordChars ==
  { "a", "b", "c", "d", "e", "f", "g", "h", "i", "j", "k", "l", "m", "n",
    "o", "p", "q", "r", "s", "t", "u", "v", "w", "x", "y", "z",
    "A", "B", "C", "D", "E", "F", "G", "H", "I", "J", "K", "L", "M", "N",
    "O", "P", "Q", "R", "S", "T", "U", "V", "W", "X", "Y", "Z",
    "0", "1", "2", "3", "4", "5", "6", "7", "8", "9", "_" }

\* shortest run of word characters the regular expression matches
MinWordLen == 3

\* a run of word characters as a match: kept when it is long enough
AsMatch(cur) == IF Len(cur) >= MinWordLen THEN <<cur>> ELSE <<>>

\* s.match(/\w{3,}/g): the maximal runs of at least 3 word characters
RECURSIVE MatchWords(_, _, _)
MatchWords(s, idx, cur) ==
  IF idx > Len(s) THEN AsMatch(cur)
  ELSE IF s[idx] \in WordChars
       THEN MatchWords(s, idx + 1, Append(cur, s[idx]))
       ELSE AsMatch(cur) \o MatchWords(s, idx + 1, <<>>)

stopWords ==
  { <<"t", "h", "e">>, <<"i", "s">>, <<"a", "r", "e">>, <<"a", "m">>,
    <<"w", "a", "s">>, <<"w", "e", "r", "e">>, <<"a">>, <<"a", "n">>,
    <<"a", "n", "d">>, <<"o", "r">>, <<"f", "o", "r">>, <<"t", "o">>,
    <<"o", "f">>, <<"i", "n">>, <<"o", "n">>, <<"a", "t">>, <<"b", "y">>,
    <<"w", "i", "t", "h">>, <<"f", "r", "o", "m">>, <<"t", "h", "a", "t">>,
    <<"t", "h", "i", "s">>, <<"i", "t">>, <<"a", "s">>, <<"b", "e">>,
    <<"b", "e", "e", "n">>, <<"b", "e", "i", "n", "g">>, <<"i", "f">>,
    <<"t", "h", "e", "n">>, <<"e", "l", "s", "e">>, <<"w", "h", "a", "t">>,
    <<"w", "h", "i", "c", "h">>, <<"w", "h", "o">>, <<"w", "h", "e", "n">>,
    <<"w", "h", "e", "r", "e">>, <<"h", "o", "w">>, <<"w", "h", "y">>,
    <<"p", "l", "e", "a", "s", "e">>, <<"g", "i", "v", "e">>,
    <<"s", "o", "m", "e">>, <<"d", "e", "t", "a", "i", "l", "s">>,
    <<"h", "e", "r", "e">> }

\* words.filter(w => !stopWords.has(w))
RECURSIVE FilterStopWords(_)
FilterStopWords(ws) ==
  IF ws = <<>> THEN <<>>
  ELSE IF Head(ws) \in stopWords THEN FilterStopWords(Tail(ws))
       ELSE <<Head(ws)>> \o FilterStopWords(Tail(ws))

extractKeywordsArray(q) ==
  IF ~Truthy(q) THEN <<>>
  ELSE FilterStopWords(MatchWords(ToLowerCase(q), 1, <<>>))

\* A file text is a sequence of segments, each pad blanks followed by the
\* characters str; every segment after the first has pad >= 1, so that a
\* word never spans two segments.
TextLen(t) ==
  LET RECURSIVE Sum(_)
      Sum(k) == IF k = 0 THEN 0 ELSE Sum(k - 1) + t[k].pad + Len(t[k].str)
  IN Sum(Len(t))

\* text.slice(0, n)
RECURSIVE TextSlice(_, _)
TextSlice(t, n) ==
  IF t = <<>> \/ n <= 0 THEN <<>>
  ELSE LET h == Head(t)
       IN IF h.pad >= n THEN << [pad |-> n, str |-> <<>>] >>
          ELSE IF h.pad + Len(h.str) >= n
               THEN << [pad |-> h.pad, str |-> SubSeq(h.str, 1, n - h.pad)] >>
               ELSE <<h>> \o TextSlice(Tail(t), n - h.pad - Len(h.str))

\* text.toLowerCase()
TextToLowerCase(t) ==
  [k \in 1..Len(t) |-> [pad |-> t[k].pad, str |-> ToLowerCase(t[k].str)]]

\* lower.includes(kw) for a keyword, which holds no blank
TextIncludes(t, kw) == \E k \in 1..Len(t) : Includes(t[k].str, kw)

\* a file name as a text
NameText(name) == << [pad |-> 0, str |-> name] >>

\* for (const kw of keywords) if (lower.includes(kw)) count++
RECURSIVE CountLoop(_, _, _)
CountLoop(lower, kws, k) ==
  IF k > Len(kws) THEN 0
  ELSE (IF TextIncludes(lower, kws[k]) THEN 1 ELSE 0)
       + CountLoop(lower, kws, k + 1)

countKeywordPresence(text, kws) ==
  IF TextLen(text) = 0 \/ kws = <<>> THEN 0
  ELSE CountLoop(TextToLowerCase(text), kws, 1)

\* previewMaxChars when no candidate matches by name
LargePreview == 20000
\* previewMaxChars when some candidate matches by name
SmallPreview == 8000

\* a preview budget that does not depend on the name matches
PreviewMaxCharsSmall(anyNameMatch) == SmallPreview

\* previewMaxChars of the branch taken on anyNameMatch
PreviewMaxChars(anyNameMatch) ==
  IF anyNameMatch THEN SmallPreview ELSE LargePreview

\* the end of getFileTextContent: the text, cut to maxChars when one is given
CutText(text, maxChars) ==
  IF maxChars # NoCap /\ TextLen(text) > maxChars
  THEN TextSlice(text, maxChars) ELSE text

\* files of the site: id, name, webUrl and the text of the content
FilePool ==
  { [id |-> "f1", name |-> <<"C", "a", "b">>, webUrl |-> "u1",
     text |-> << [pad |-> 0, str |-> <<"b", "a", "y">>] >>],
    [id |-> "f2", name |-> <<"m", "e", "m", "o">>, webUrl |-> "u2",
     text |-> << [pad |-> 7998, str |-> <<"c", "a", "b">>] >>],
    [id |-> "f3", name |-> <<"n", "b">>, webUrl |-> "u3",
     text |-> << [pad |-> 1, str |-> <<"B", "A", "Y">>],
                 [pad |-> 19996, str |-> <<"c", "a", "b">>] >>],
    [id |-> "f4", name |-> <<"b", "a", "y", "c", "a", "b">>, webUrl |-> "u4",
     text |-> <<>>],
    [id |-> "f5", name |-> <<"x">>, webUrl |-> "u5",
     text |-> << [pad |-> 0, str |-> <<"x">>] >>] }

\* the content served for a file id
TextOf(id) == (CHOOSE f \in FilePool : f.id = id).text

\* hit lists of a search: files of the site, each at most once
RECURSIVE HitListsOfLen(_)
HitListsOfLen(n) ==
  IF n = 0 THEN { <<>> }
  ELSE { Append(h, f) : h \in HitListsOfLen(n - 1), f \in FilePool }

HitLists ==
  { h \in UNION { HitListsOfLen(n) : n \in 0..MaxCandidates } :
      \A a, b \in 1..Len(h) : a # b => h[a].id # h[b].id }

\* req.body.query
QueryArgs ==
  { <<>>,
    <<"b", "y">>,
    <<"C", "a", "b", " ", "c", "a", "b">>,
    <<"C", "A", "B", " ", "a", "n", "d", " ", "b", "a", "y">> }

\* weight of a name match in the score
NameWeight == 3

\* a score that gives name and content matches the same weight
ScoreUnweighted(nameMatches, contentMatches) == nameMatches + contentMatches

\* (c.nameMatches * 3) + (contentMatches * 1)
Score(nameMatches, contentMatches) ==
  (nameMatches * NameWeight) + (contentMatches * 1)

\* step 3: quick filename scoring
NameScored(h, kws) ==
  [k \in 1..Len(h) |->
     LET nameLower == ToLowerCase(h[k].name)
         nameMatches == countKeywordPresence(NameText(nameLower), kws)
     IN [id |-> h[k].id, name |-> h[k].name, webUrl |-> h[k].webUrl,
         nameMatches |-> nameMatches, contentMatches |-> 0,
         score |-> Score(nameMatches, 0)]]

\* step 4: candidates.map((c, idx) => ...) over the previews
ContentScored(cands, prevs, kws) ==
  [k \in 1..Len(cands) |->
     LET contentMatches == countKeywordPresence(prevs[k], kws)
     IN [cands[k] EXCEPT !.contentMatches = contentMatches,
                         !.score = Score(cands[k].nameMatches, contentMatches)]]

\* an insertion that puts c before the first element that does not score more
RECURSIVE InsertByScoreEarly(_, _)
InsertByScoreEarly(sorted, c) ==
  IF sorted = <<>> THEN <<c>>
  ELSE IF Head(sorted).score > c.score
       THEN <<Head(sorted)>> \o InsertByScoreEarly(Tail(sorted), c)
       ELSE <<c>> \o sorted

\* insertion of c behind every element that scores at least as much
RECURSIVE InsertByScore(_, _)
InsertByScore(sorted, c) ==
  IF sorted = <<>> THEN <<c>>
  ELSE IF Head(sorted).score >= c.score
       THEN <<Head(sorted)>> \o InsertByScore(Tail(sorted), c)
       ELSE <<c>> \o sorted

\* a sort by score that reverses the input order of equal scores
RECURSIVE SortByScoreUnstable(_)
SortByScoreUnstable(cands) ==
  IF cands = <<>> THEN <<>>
  ELSE InsertByScoreEarly(
         SortByScoreUnstable(SubSeq(cands, 1, Len(cands) - 1)),
         cands[Len(cands)])

\* candidates.sort((a, b) => b.score - a.score, 0 on ties): Array.prototype
\* .sort is stable, so equal scores keep their order
RECURSIVE SortByScoreDesc(_)
SortByScoreDesc(cands) ==
  IF cands = <<>> THEN <<>>
  ELSE InsertByScore(SortByScoreDesc(SubSeq(cands, 1, Len(cands) - 1)),
                     cands[Len(cands)])

\* Math.min(3, candidates.length)
TopLimit == 3

\* a choice of top files that takes every candidate
TopAll(cands) == Len(cands)

TOP_N(cands) == Min(TopLimit, Len(cands))

\* the getFileTextContent calls issued by one candidates.map(...)
FetchCalls(cands, maxChars) ==
  [k \in 1..Len(cands) |-> [id |-> cands[k].id, maxChars |-> maxChars]]

\* sources of the response
Sources(cands) ==
  [k \in 1..Len(cands) |->
     [name |-> cands[k].name, url |-> cands[k].webUrl,
      score |-> cands[k].score, nameMatches |-> cands[k].nameMatches,
      contentMatches |-> cands[k].contentMatches]]

\* the handler up to its first await, for a request that carries a bearer
\* token: 400 without a query, otherwise the keywords are extracted and the
\* search is issued
Request(q) ==
  /\ rpc = "idle"
  /\ query' = q
  /\ IF ~Truthy(q)
     THEN /\ rpc' = "done"
          /\ response' = [status |-> 400, sources |-> <<>>]
          /\ UNCHANGED keywords
     ELSE /\ rpc' = "search"
          /\ keywords' = extractKeywordsArray(q)
          /\ UNCHANGED response
  /\ UNCHANGED <<hits, candidates, previewMax, pendingPrev, previews,
                 pendingFull, topFullContents, fetchLog, resolverVars,
                 aggVars>>

\* the search returns h: 404 when empty, otherwise the names are scored and
\* one preview fetch per candidate is issued with the budget of the branch
SearchOk(h) ==
  /\ rpc = "search"
  /\ hits' = h
  /\ IF h = <<>>
     THEN /\ rpc' = "done"
          /\ response' = [status |-> 404, sources |-> <<>>]
          /\ UNCHANGED <<candidates, previewMax, pendingPrev, previews,
                         fetchLog>>
     ELSE LET scored == NameScored(h, keywords)
              anyNameMatch == \E k \in 1..Len(scored) :
                                 scored[k].nameMatches > 0
              previewMaxChars == PreviewMaxChars(anyNameMatch)
          IN /\ candidates' = scored
             /\ previewMax' = previewMaxChars
             /\ fetchLog' = fetchLog \o FetchCalls(scored, previewMaxChars)
             /\ pendingPrev' = 1..Len(scored)
             /\ previews' = [k \in 1..Len(scored) |-> <<>>]
             /\ rpc' = "preview"
             /\ UNCHANGED response
  /\ UNCHANGED <<query, keywords, pendingFull, topFullContents, resolverVars,
                 aggVars>>

\* the search rejects: the outer catch answers 500
SearchFail ==
  /\ rpc = "search"
  /\ rpc' = "done"
  /\ response' = [status |-> 500, sources |-> <<>>]
  /\ UNCHANGED <<query, keywords, hits, candidates, previewMax, pendingPrev,
                 previews, pendingFull, topFullContents, fetchLog,
                 resolverVars, aggVars>>

\* the preview fetch of candidate k returns the text, cut to the budget
PreviewOk(k) ==
  /\ rpc = "preview"
  /\ k \in pendingPrev
  /\ previews' = [previews EXCEPT
       ![k] = CutText(TextOf(candidates[k].id), previewMax)]
  /\ pendingPrev' = pendingPrev \ {k}
  /\ UNCHANGED <<rpc, query, keywords, hits, candidates, previewMax,
                 pendingFull, topFullContents, fetchLog, response,
                 resolverVars, aggVars>>

\* the preview fetch of candidate k fails: getFileTextContent returns ""
PreviewFail(k) ==
  /\ rpc = "preview"
  /\ k \in pendingPrev
  /\ previews' = [previews EXCEPT ![k] = <<>>]
  /\ pendingPrev' = pendingPrev \ {k}
  /\ UNCHANGED <<rpc, query, keywords, hits, candidates, previewMax,
                 pendingFull, topFullContents, fetchLog, response,
                 resolverVars, aggVars>>

\* Promise.all over the previews resolves: content scoring, sort, and the
\* full fetches of the top files are issued
PreviewsComplete ==
  /\ rpc = "preview"
  /\ pendingPrev = {}
  /\ LET sorted == SortByScoreDesc(ContentScored(candidates, previews,
                                                 keywords))
         topFiles == Slice(sorted, 0, TOP_N(sorted))
     IN /\ candidates' = sorted
        /\ fetchLog' = fetchLog \o FetchCalls(topFiles, NoCap)
        /\ pendingFull' = 1..Len(topFiles)
        /\ topFullContents' = [k \in 1..Len(topFiles) |-> <<>>]
  /\ rpc' = "full"
  /\ UNCHANGED <<query, keywords, hits, previewMax, pendingPrev, previews,
                 response, resolverVars, aggVars>>

\* the full fetch of top file k returns the whole text
FullOk(k) ==
  /\ rpc = "full"
  /\ k \in pendingFull
  /\ topFullContents' = [topFullContents EXCEPT
       ![k] = CutText(TextOf(candidates[k].id), NoCap)]
  /\ pendingFull' = pendingFull \ {k}
  /\ UNCHANGED <<rpc, query, keywords, hits, candidates, previewMax,
                 pendingPrev, previews, fetchLog, response, resolverVars,
                 aggVars>>

\* the full fetch of top file k fails: getFileTextContent returns ""
FullFail(k) ==
  /\ rpc = "full"
  /\ k \in pendingFull
  /\ topFullContents' = [topFullContents EXCEPT ![k] = <<>>]
  /\ pendingFull' = pendingFull \ {k}
  /\ UNCHANGED <<rpc, query, keywords, hits, candidates, previewMax,
                 pendingPrev, previews, fetchLog, response, resolverVars,
                 aggVars>>

\* Promise.all over the full fetches resolves: combinedText holds a
\* "---" / "File:" header per top file, so it is never blank, and the
\* completion is requested
FullComplete ==
  /\ rpc = "full"
  /\ pendingFull = {}
  /\ rpc' = "openai"
  /\ UNCHANGED <<query, keywords, hits, candidates, previewMax, pendingPrev,
                 previews, pendingFull, topFullContents, fetchLog, response,
                 resolverVars, aggVars>>

\* the completion returns: the answer is sent with the ranked sources
CompletionOk ==
  /\ rpc = "openai"
  /\ rpc' = "done"
  /\ response' = [status |-> 200, sources |-> Sources(candidates)]
  /\ UNCHANGED <<query, keywords, hits, candidates, previewMax, pendingPrev,
                 previews, pendingFull, topFullContents, fetchLog,
                 resolverVars, aggVars>>

\* the completion rejects: the outer catch answers 500
CompletionFail ==
  /\ rpc = "openai"
  /\ rpc' = "done"
  /\ response' = [status |-> 500, sources |-> <<>>]
  /\ UNCHANGED <<query, keywords, hits, candidates, previewMax, pendingPrev,
                 previews, pendingFull, topFullContents, fetchLog,
                 resolverVars, aggVars>>

InitRank ==
  /\ T = <<>>
  /\ companyCache = << >>
  /\ calls = [c \in CallIds |-> IdleCall]
  /\ secCiks = <<>>
  /\ watchFailures = FALSE
  /\ AggIdle
  /\ RankIdle

NextRank ==
  \/ \E q \in QueryArgs : Request(q)
  \/ \E h \in HitLists : SearchOk(h)
  \/ SearchFail
  \/ \E k \in 1..MaxCandidates : PreviewOk(k)
  \/ \E k \in 1..MaxCandidates : PreviewFail(k)
  \/ PreviewsComplete
  \/ \E k \in 1..TopLimit : FullOk(k)
  \/ \E k \in 1..TopLimit : FullFail(k)
  \/ FullComplete
  \/ CompletionOk
  \/ CompletionFail

SpecRank == InitRank /\ [][NextRank]_vars

\* ------------------------------------------------------ resolver: claims
\* equality of two strings ignoring letter case and surrounding blanks
SameIgnoringCaseAndBlanks(a, b) == ToLowerCase(Trim(a)) = ToLowerCase(Trim(b))

\* rows of T whose ticker is the ticker searched by call c
TickerRows(c) ==
  { r \in 1..Len(T) :
      /\ Truthy(calls[c].ticker)
      /\ Trim(calls[c].ticker) # <<>>
      /\ SameIgnoringCaseAndBlanks(T[r].ticker, calls[c].ticker) }

\* rows of T whose name contains the name searched by call c
NameRows(c) ==
  { r \in 1..Len(T) :
      /\ Truthy(calls[c].name)
      /\ Trim(calls[c].name) # <<>>
      /\ Includes(ToLowerCase(T[r].name), ToLowerCase(Trim(calls[c].name))) }

\* C1: a call that missed the cache and scanned the table returns the CIK
\* of a row whose ticker equals the searched ticker whenever such a row
\* exists, also when a row matching by name comes earlier in the table.
C1_TickerMatchWins ==
  \A c \in CallIds :
    (calls[c].outcome = "scanned" /\ TickerRows(c) # {})
      => calls[c].result \in { FormatCik(T[r].cik) : r \in TickerRows(c) }

\* C1 witness: a scan returned the ticker row although a different row
\* matching by name precedes it.
C1_Witness ==
  \E c \in CallIds :
    /\ calls[c].outcome = "scanned"
    /\ \E r \in NameRows(c), q \in TickerRows(c) :
         /\ r < q
         /\ T[r].cik # T[q].cik
         /\ calls[c].result = FormatCik(T[q].cik)

\* C2: a call that obtained a result (from the cache or from a scan)
\* returns the CIK that the same arguments resolve to on an empty cache.
C2_PureFunction ==
  \A c \in CallIds :
    calls[c].outcome \in {"hit", "scanned"}
      => calls[c].result = ScanTable(T, calls[c].name, calls[c].ticker)

\* a call performs a table fetch exactly when it missed the cache
Fetches(c) == IF calls[c].outcome \in {"scanned", "error"} THEN 1 ELSE 0

\* C3: two consecutive calls with the same lookup key, the second invoked
\* after the first returned a lookup result, return the same CIK and
\* perform at most one table fetch between them.
C3_Idempotent ==
  \A c, d \in CallIds :
    ( /\ d = c + 1
      /\ calls[d].pc = "done"
      /\ c \in calls[d].after
      /\ calls[c].outcome # "error"
      /\ calls[c].key = calls[d].key )
      => /\ calls[d].result = calls[c].result
         /\ Fetches(c) + Fetches(d) <= 1

\* C4: after a call scanned the table and found nothing for a key, every
\* call invoked later with that key is a cache hit that returns null.
C4_NullIsCached ==
  \A c, d \in CallIds :
    ( /\ calls[c].outcome = "scanned"
      /\ calls[c].result = Null
      /\ calls[d].pc = "done"
      /\ c \in calls[d].after
      /\ calls[c].key = calls[d].key )
      => /\ calls[d].outcome = "hit"
         /\ calls[d].result = Null

\* C5: a populated key of companyCache keeps its value in every step.
C5_CacheNeverChanges ==
  [][\A k \in DOMAIN companyCache :
       k \in DOMAIN companyCache' /\ companyCache'[k] = companyCache[k]]_vars

\* calls with the key of call c whose scan of the table has returned
ScannedWithKey(c) ==
  { e \in CallIds : calls[e].outcome = "scanned" /\ calls[e].key = calls[c].key }

\* C13: a call whose table fetch failed returns null and writes no cache
\* entry: its key is cached only if a scan stored it, and a call invoked
\* later with that key is a cache hit only after such a scan returned,
\* otherwise it fetches the table again.
C13_FailureNotCached ==
  \A c \in CallIds :
    calls[c].outcome = "error"
      => /\ calls[c].pc = "done"
         /\ calls[c].result = Null
         /\ calls[c].key \in DOMAIN companyCache => ScannedWithKey(c) # {}
         /\ \A d \in CallIds :
              ( /\ c \in calls[d].after
                /\ calls[d].key = calls[c].key
                /\ calls[d].outcome = "hit" )
                => ScannedWithKey(c) \cap calls[d].after # {}

\* C13 witness: a call failed on the table fetch, and a call invoked later
\* with the same key fetched the table again and scanned it.
C13_Witness ==
  \E c, d \in CallIds :
    /\ calls[c].outcome = "error"
    /\ c \in calls[d].after
    /\ calls[d].key = calls[c].key
    /\ calls[d].outcome = "scanned"
    /\ ScannedWithKey(c) = {d}

\* C14: the cache key of a call is the lower-cased, trimmed ticker when a
\* ticker is supplied, and the lower-cased, trimmed name otherwise.
C14_KeyFromTicker ==
  \A c \in CallIds :
    calls[c].pc # "idle"
      => calls[c].key = IF Truthy(calls[c].ticker)
                        THEN Normalize(calls[c].ticker)
                        ELSE IF Truthy(calls[c].name)
                             THEN Normalize(calls[c].name)
                             ELSE <<>>

\* the smallest element of a non-empty set of row indices
FirstOf(S) == CHOOSE r \in S : \A q \in S : r <= q

\* C15: a scan that finds no row with the searched ticker returns the CIK
\* of the first row, in table order, whose name contains the searched name.
C15_FirstNameMatch ==
  \A c \in CallIds :
    (calls[c].outcome = "scanned" /\ TickerRows(c) = {} /\ NameRows(c) # {})
      => calls[c].result = FormatCik(T[FirstOf(NameRows(c))].cik)

\* C16: in the uncached resolver, a scan returns the CIK of the row whose
\* ticker equals the searched ticker when an earlier row matches by name
\* only.
C16_UncachedTickerWins ==
  \A c \in CallIds :
    ( /\ calls[c].outcome = "scanned"
      /\ \E q \in TickerRows(c), r \in NameRows(c) \ TickerRows(c) : r < q )
      => calls[c].result \in { FormatCik(T[q].cik) : q \in TickerRows(c) }

\* call c has issued a fetch of the reference table
Fetched(c) ==
  calls[c].pc = "await" \/ calls[c].outcome \in {"scanned", "error"}

\* C21: of two calls with the same key of which the second is invoked
\* before the first has returned, the second finds the key populated and
\* at most one of them fetches the table.
C21_NoRedundantFetch ==
  \A c, d \in CallIds :
    ( /\ c < d
      /\ calls[d].pc # "idle"
      /\ c \notin calls[d].after
      /\ calls[c].key = calls[d].key )
      => /\ calls[d].outcome = "hit"
         /\ ~(Fetched(c) /\ Fetched(d))

\* ---------------------------------------------------- aggregator: claims
\* two filings are the same submission
SameFiling(f, g) ==
  f.cik = g.cik /\ f.accessionNumber = g.accessionNumber

\* date d1 is strictly later than date d2 (year, month, day)
LaterDate(d1, d2) ==
  \/ d1[1] > d2[1]
  \/ d1[1] = d2[1] /\ d1[2] > d2[2]
  \/ d1[1] = d2[1] /\ d1[2] = d2[2] /\ d1[3] > d2[3]

\* the batch window (counted from 0) of the entity at position p of ciks
WindowOf(p) == (p - 1) \div BATCH_SIZE

\* indices of discovered holding the first delivery of a submission
FirstDeliveries ==
  { k \in 1..Len(discovered) :
      \A m \in 1..(k - 1) : ~SameFiling(discovered[m].f, discovered[k].f) }

\* C6: the returned list holds no submission (cik, accessionNumber) twice.
C6_NoDuplicateFilings ==
  apc = "done" =>
    \A x, y \in 1..Len(output) : SameFiling(output[x], output[y]) => x = y

\* C6 witness: a submission delivered in two different batch windows is in
\* the returned list.
C6_Witness ==
  /\ apc = "done"
  /\ \E k, m \in 1..Len(discovered), x \in 1..Len(output) :
       /\ WindowOf(discovered[k].pos) # WindowOf(discovered[m].pos)
       /\ SameFiling(discovered[k].f, discovered[m].f)
       /\ SameFiling(discovered[k].f, output[x])

\* C7: in the returned list no filing is followed by one filed later.
C7_SortedByDateDesc ==
  apc = "done" =>
    \A x, y \in 1..Len(output) :
      x < y => ~LaterDate(output[y].filingDate, output[x].filingDate)

\* C7 witness: the returned list holds two filings of different windows
\* where the one discovered first was filed earlier.
C7_Witness ==
  /\ apc = "done"
  /\ \E k, m \in FirstDeliveries, x, y \in 1..Len(output) :
       /\ WindowOf(discovered[k].pos) < WindowOf(discovered[m].pos)
       /\ LaterDate(discovered[m].f.filingDate, discovered[k].f.filingDate)
       /\ output[x] = discovered[m].f
       /\ output[y] = discovered[k].f
       /\ x < y

\* C8: collected never holds more than limit filings, and neither does the
\* returned list.
C8_LengthWithinLimit ==
  Len(collected) <= limit /\ Len(output) <= limit

\* C8 witness: a call returned exactly limit filings although the consumed
\* windows delivered more distinct submissions than limit.
C8_Witness ==
  /\ apc = "done"
  /\ limit > 0
  /\ Len(output) = limit
  /\ Cardinality(FirstDeliveries) > limit

\* C9 as claimed: the returned list is the limit most recent of all the
\* distinct filings delivered by the issued windows, most recent first.
C9_TruncateAfterFullSort ==
  (apc = "done" /\ ciks # <<>>) =>
    /\ Len(output) = Min(limit, Cardinality(FirstDeliveries))
    /\ \A x, y \in 1..Len(output) :
         x < y => ~LaterDate(output[y].filingDate, output[x].filingDate)
    /\ \A k \in FirstDeliveries :
         (\A x \in 1..Len(output) : ~SameFiling(output[x], discovered[k].f))
           => \A x \in 1..Len(output) :
                ~LaterDate(discovered[k].f.filingDate, output[x].filingDate)

\* first deliveries that come within the first limit distinct submissions
\* in discovery order
KeptDeliveries ==
  { k \in FirstDeliveries :
      Cardinality({ m \in FirstDeliveries : m < k }) < limit }

\* C9 amended: the returned list consists of exactly the first limit
\* distinct filings in discovery order, arranged most recent first.
C9_TruncateBeforeSort ==
  apc = "done" =>
    /\ Len(output) = Cardinality(KeptDeliveries)
    /\ \A k \in KeptDeliveries :
         \E x \in 1..Len(output) : output[x] = discovered[k].f
    /\ \A x, y \in 1..Len(output) :
         x < y => ~LaterDate(output[y].filingDate, output[x].filingDate)

\* C9 witness: a delivered filing is missing from the returned list although
\* it was filed later than a returned one.
C9_Witness ==
  /\ apc = "done"
  /\ \E k \in FirstDeliveries, x \in 1..Len(output) :
       /\ \A y \in 1..Len(output) : ~SameFiling(output[y], discovered[k].f)
       /\ LaterDate(discovered[k].f.filingDate, output[x].filingDate)

\* C10: per-entity fetches are issued only in a step that starts with fewer
\* than limit filings collected, and that step does not change collected.
C10_EarlyTermination ==
  [][issued' # issued => (Len(collected) < limit' /\ collected' = collected)]_vars

\* C10 witness: 12 entities, limit 3: the call returned 3 filings having
\* issued the fetches of the first window only.
C10_Witness ==
  /\ apc = "done"
  /\ Len(ciks) = 12
  /\ limit = 3
  /\ Len(output) = 3
  /\ Len(issued) = BATCH_SIZE

\* C11: the fetches of a window are issued only in a step that starts with
\* no fetch in flight and, for every window after the first, with the delay
\* of the previous window being awaited.
C11_WindowsSequential ==
  [][issued' # issued =>
       (pending = {} /\ (issued = <<>> \/ apc = "delay"))]_vars

\* C11 witness: fetches of the second window are in flight.
C11_Witness ==
  /\ apc = "window"
  /\ i >= BATCH_SIZE
  /\ pending # {}

\* filings of the current window delivered by slots whose request succeeded
DeliveredNow ==
  { f \in UNION { { results[s][k] : k \in 1..Len(results[s]) } :
                    s \in 1..Len(results) } : TRUE }

\* C12: a failed request contributes no filing, the filings of the other
\* entities of its window are collected up to the limit, and the call ends
\* only with the limit reached or every entity fetched.
C12_FailureDoesNotAbort ==
  /\ \A k \in 1..Len(discovered) : discovered[k].pos \notin failedAt
  /\ apc \in {"window", "delay"} =>
       \A s \in 1..Len(results) : (i + s) \in failedAt => results[s] = <<>>
  /\ (apc = "delay" /\ Len(collected) < limit) =>
       \A f \in DeliveredNow : \E x \in 1..Len(collected) : collected[x] = f
  /\ (apc = "done" /\ failedAt # {}) =>
       (Len(output) >= limit \/ Len(issued) = Len(ciks))

\* C12 witness: a request of the first window failed, a filing of another
\* entity of that window was collected, and the second window was issued.
C12_Witness ==
  /\ \E p \in failedAt : WindowOf(p) = 0
  /\ \E k \in 1..Len(discovered), x \in 1..Len(collected) :
       WindowOf(discovered[k].pos) = 0 /\ collected[x] = discovered[k].f
  /\ Len(issued) > BATCH_SIZE

\* at most 5 fetches are in flight, all for positions of the current window
InFlightWithinWindow ==
  /\ Cardinality(pending) <= 5
  /\ \A s \in pending :
       /\ apc = "window"
       /\ s \in 1..Len(batch)
       /\ batch[s] = ciks[i + s]
       /\ WindowOf(i + s) = i \div 5

\* no position of ciks is issued twice
PositionsIssuedOnce ==
  \A x, y \in 1..Len(issued) : x < y => issued[x] # issued[y]

\* C22 (as claimed): at most 5 per-entity fetches are in flight, all of
\* them for one window of the CIK list, and no CIK is fetched twice in one
\* call.
C22_BoundedFetchesOncePerCik ==
  /\ InFlightWithinWindow
  /\ \A x, y \in 1..Len(issued) :
       x < y => ciks[issued[x]] # ciks[issued[y]]

\* C22 (amended): at most 5 per-entity fetches are in flight, all of them
\* for one window of the CIK list, and no position of the list is fetched
\* twice in one call; a CIK that several rows carry is fetched once per row.
C22_BoundedFetchesOncePerRow ==
  /\ InFlightWithinWindow
  /\ PositionsIssuedOnce

\* C22 witness: the five fetches of the second window are in flight, and
\* two issued positions carry the same CIK.
C22_Witness ==
  /\ apc = "window"
  /\ i >= 5
  /\ Cardinality(pending) = 5
  /\ \E x, y \in 1..Len(issued) :
       x < y /\ ciks[issued[x]] = ciks[issued[y]]

\* number of windows issued so far: every window but the last holds 5
WindowsIssued == (Len(issued) + 4) \div 5

\* C23: once the table of N CIKs is loaded the call returns, provided the
\* per-entity requests settle and the delays elapse, and it never issues
\* more than ceil(N / 5) windows.
C23_ReturnsWithinWindows ==
  /\ [](WindowsIssued <= (Len(ciks) + 4) \div 5)
  /\ (apc \in {"window", "delay"}) ~> (apc = "done")

\* C23 witness: the call returned after issuing two windows over 7 rows.
C23_Witness ==
  /\ apc = "done"
  /\ Len(ciks) = 7
  /\ WindowsIssued = 2

\* index in discovered of the first delivery of filing f
FirstDeliveryOf(f) ==
  CHOOSE k \in FirstDeliveries : SameFiling(discovered[k].f, f)

\* C24: two filings of the returned list with the same filingDate appear
\* in the order of their first delivery (window, then entity, then index
\* in the entity's record).
C24_EqualDatesKeepDiscoveryOrder ==
  apc = "done" =>
    \A x, y \in 1..Len(output) :
      (x < y /\ output[x].filingDate = output[y].filingDate)
        => FirstDeliveryOf(output[x]) < FirstDeliveryOf(output[y])

\* C24 witness: the returned list holds two filings of one date, and the
\* sort moved them ahead of a filing that was discovered before both.
C24_Witness ==
  /\ apc = "done"
  /\ \E x, y, z \in 1..Len(output) :
       /\ x < y /\ y < z
       /\ output[x].filingDate = output[y].filingDate
       /\ FirstDeliveryOf(output[z]) < FirstDeliveryOf(output[x])

\* ------------------------------------------------- /sharepoint-query: claims
\* the ranking pass has run: candidates are scored and sorted
Ranked == rpc \in {"full", "openai", "done"} /\ candidates # <<>>

\* position in the search result of the file with this id
HitIndex(id) == CHOOSE k \in 1..Len(hits) : hits[k].id = id

\* position in the search result of the file with this url
HitPos(url) == CHOOSE k \in 1..Len(hits) : hits[k].webUrl = url

\* keyword kw occurs in the name / in the preview of candidate c
InName(c, kw) == Includes(ToLowerCase(c.name), kw)
InPreview(c, kw) ==
  TextIncludes(TextToLowerCase(previews[HitIndex(c.id)]), kw)

\* C17: after the ranking pass every candidate, and every source of the
\* response, has score = 3 * nameMatches + contentMatches, and a candidate
\* with no keyword in its name and none in its preview has score 0.
C17_ScoreFormula ==
  /\ Ranked =>
       \A k \in 1..Len(candidates) :
         LET c == candidates[k]
         IN /\ c.score = 3 * c.nameMatches + c.contentMatches
            /\ (\A j \in 1..Len(keywords) :
                  ~InName(c, keywords[j]) /\ ~InPreview(c, keywords[j]))
                 => c.score = 0
  /\ response.status = 200 =>
       \A k \in 1..Len(response.sources) :
         LET r == response.sources[k]
         IN r.score = 3 * r.nameMatches + r.contentMatches

\* C17 witness: the response ranks a source matched in its name and in its
\* preview next to a source without any match.
C17_Witness ==
  /\ response.status = 200
  /\ \E k \in 1..Len(response.sources) :
       /\ response.sources[k].nameMatches > 0
       /\ response.sources[k].contentMatches > 0
  /\ \E k \in 1..Len(response.sources) : response.sources[k].score = 0

\* C18: no content fetch precedes the search result; then exactly one
\* preview fetch per candidate is issued, in input order, all with 20000
\* chars when no name holds a keyword and all with 8000 otherwise; no
\* preview exceeds that budget, and every fetch issued after the sort is
\* uncapped.
C18_PreviewPolicy ==
  LET anyName == \E k \in 1..Len(hits), j \in 1..Len(keywords) :
                    InName(hits[k], keywords[j])
      budget == IF anyName THEN 8000 ELSE 20000
  IN /\ rpc \in {"idle", "search"} => fetchLog = <<>>
     /\ (rpc = "preview" \/ Ranked) =>
          /\ Len(fetchLog) >= Len(hits)
          /\ \A k \in 1..Len(hits) :
               fetchLog[k] = [id |-> hits[k].id, maxChars |-> budget]
          /\ \A k \in (Len(hits) + 1)..Len(fetchLog) :
               fetchLog[k].maxChars = 0
          /\ \A k \in 1..Len(previews) : TextLen(previews[k]) <= budget
     /\ rpc = "preview" => Len(fetchLog) = Len(hits)

\* C18 witness: no name matched, and a candidate was ranked on a keyword
\* that lies beyond the first 8000 chars of its content.
C18_Witness ==
  /\ Ranked
  /\ previewMax = 20000
  /\ \E k \in 1..Len(candidates) :
       /\ candidates[k].contentMatches > 0
       /\ countKeywordPresence(
            TextSlice(TextOf(candidates[k].id), 8000), keywords) = 0

\* C19: the sources of the response are the search hits, each exactly
\* once, in descending order of score, equal scores in input order.
C19_ManifestStableDesc ==
  response.status = 200 =>
    LET src == response.sources
    IN /\ Len(src) = Len(hits)
       /\ \A k \in 1..Len(hits) :
            Cardinality({ x \in 1..Len(src) :
                            src[x].url = hits[k].webUrl }) = 1
       /\ \A x, y \in 1..Len(src) :
            x < y => /\ src[x].score >= src[y].score
                     /\ src[x].score = src[y].score
                          => HitPos(src[x].url) < HitPos(src[y].url)

\* C19 witness: the response reorders the hits and holds two sources of
\* equal score.
C19_Witness ==
  /\ response.status = 200
  /\ response.sources[1].url # hits[1].webUrl
  /\ \E x, y \in 1..Len(response.sources) :
       x < y /\ response.sources[x].score = response.sources[y].score

\* the different keywords of the request
DistinctKeywords == { keywords[j] : j \in 1..Len(keywords) }

\* C20: nameMatches is the number of different keywords occurring in the
\* candidate's name, and after the ranking pass contentMatches the number
\* of different keywords occurring in its preview.
C20_DistinctKeywordCount ==
  \A k \in 1..Len(candidates) :
    LET c == candidates[k]
    IN /\ c.nameMatches =
            Cardinality({ w \in DistinctKeywords : InName(c, w) })
       /\ Ranked =>
            c.contentMatches =
              Cardinality({ w \in DistinctKeywords : InPreview(c, w) })

\* the getFileTextContent calls issued without a character cap, in order
FullCalls == SelectSeq(fetchLog, LAMBDA e : e.maxChars = 0)

\* C25: no uncapped fetch is issued while the search or a preview fetch is
\* outstanding; once the candidates are sorted by score, the uncapped
\* fetches are one per candidate for the first min(3, n) candidates of the
\* sorted order, and no other.
C25_FullFetchTopOnly ==
  /\ rpc \in {"idle", "search", "preview"} => FullCalls = <<>>
  /\ FullCalls # <<>> => pendingPrev = {}
  /\ Ranked =>
       /\ \A x, y \in 1..Len(candidates) :
            x < y => candidates[x].score >= candidates[y].score
       /\ Len(FullCalls) = IF Len(candidates) < 3 THEN Len(candidates) ELSE 3
       /\ \A k \in 1..Len(FullCalls) : FullCalls[k].id = candidates[k].id
       /\ FullCalls = SubSeq(fetchLog, Len(hits) + 1, Len(fetchLog))

\* C25 witness: of four candidates reordered by the sort, the first three
\* are fetched at full length and the fourth is not.
C25_Witness ==
  /\ Ranked
  /\ Len(candidates) = 4
  /\ candidates[1].id # hits[1].id
  /\ Len(FullCalls) = 3
  /\ \A k \in 1..Len(FullCalls) : FullCalls[k].id # candidates[4].id

====
